---- MODULE Spec2Model ----
(***************************************************************************)
(* MidHealth: the PatientCredential attestation slot.                      *)
(*                                                                         *)
(* The public ledger holds one slot (credentialState, credentialHash,      *)
(* issuerPubKey, attestationCount, lastVerification, sequence).  Three     *)
(* circuits act on it: issueCredential, proveVaccinated, revokeCredential. *)
(* Their private inputs come from the witnesses of the local private       *)
(* state.  Hashing is the repository's simulateHash (byte-wise XOR fold)   *)
(* over 32-byte values built by strToBytes32.                              *)
(***************************************************************************)
EXTENDS Integers, Sequences, FiniteSets, TLC

(***************************************************************************)
(* Bounds of the model.                                                    *)
(***************************************************************************)
\* attestationCount is a ledger Counter; the model stops committing at this value
MaxCount == 4
\* sequence is a ledger Counter; the model stops advancing it at this value
MaxSequence == 2
\* the largest sequence value a derived key is compared against
MaxProbeSequence == 12
\* witness calls made within one operation
MaxCalls == 3
\* operations applied in a row when enumerating the slots a deployment can reach
MaxOps == 3
\* operations the callers of the submission pipeline evaluate in one run
MaxOperations == 3

(***************************************************************************)
(* Enumerations of the contract.                                           *)
(***************************************************************************)
EMPTY == "EMPTY"
ACTIVE == "ACTIVE"
REVOKED == "REVOKED"
CredentialState == {EMPTY, ACTIVE, REVOKED}

NONE == "NONE"
VALID == "VALID"
INVALID == "INVALID"
VerificationResult == {NONE, VALID, INVALID}

(***************************************************************************)
(* Bytes and hashing.                                                      *)
(***************************************************************************)
\* every ledger digest and every witness is a Bytes<32>
HashLen == 32

\* new Uint8Array(32): all bytes zero
ZeroBytes == [i \in 1..HashLen |-> 0]

RECURSIVE xorByte(_, _)
\* JavaScript a ^ b on two byte values
xorByte(a, b) ==
  IF a = 0 THEN b
  ELSE IF b = 0 THEN a
  ELSE ((a + b) % 2) + 2 * xorByte(a \div 2, b \div 2)

\* the inner loop of simulateHash: result[i] ^= part[i] for i < 32 && i < part.length
xorInto(result, part) ==
  [i \in 1..HashLen |-> IF i <= Len(part) THEN xorByte(result[i], part[i]) ELSE result[i]]

RECURSIVE foldParts(_, _)
\* the outer loop of simulateHash over the parts, in order
foldParts(result, parts) ==
  IF parts = <<>> THEN result
  ELSE foldParts(xorInto(result, Head(parts)), Tail(parts))

\* simulateHash(parts): XOR fold of the parts into a zeroed 32-byte result
simulateHash(parts) == foldParts(ZeroBytes, parts)

\* strToBytes32(s): the UTF-8 bytes of s, cut at 32 and zero padded to 32;
\* a string is given by the sequence of its (ASCII) byte codes
strToBytes32(s) ==
  [i \in 1..HashLen |-> IF i <= Len(s) THEN s[i] ELSE 0]

RECURSIVE String(_)
\* String(n): the decimal digits of n as byte codes ('0' is 48)
String(n) ==
  IF n < 10 THEN <<48 + n>>
  ELSE String(n \div 10) \o <<48 + (n % 10)>>

\* "midhealth:pk:"
prefix == strToBytes32(<<109, 105, 100, 104, 101, 97, 108, 116, 104, 58, 112, 107, 58>>)

\* a key derivation that leaves the sequence out
Derive_noSequence(secretKey, seq) ==
  simulateHash(<<prefix, secretKey>>)

\* the issuer public key: simulateHash([prefix, seqBytes, issuerSk])
Derive(secretKey, seq) ==
  simulateHash(<<prefix, strToBytes32(String(seq)), secretKey>>)

\* a credential hash that leaves the payload out
Commit_dropPayload(patientId, payload, pubKey) ==
  simulateHash(<<patientId, pubKey>>)

\* the credential hash: simulateHash([patientId, payload, pubKey])
Commit(patientId, payload, pubKey) ==
  simulateHash(<<patientId, payload, pubKey>>)

(***************************************************************************)
(* Private inputs the users may hold.                                      *)
(***************************************************************************)
\* "SK"
SK == strToBytes32(<<83, 75>>)
\* "\idhealth:pk:", another user's key; its bytes are those of prefix XOR "1"
WK == strToBytes32(<<92, 105, 100, 104, 101, 97, 108, 116, 104, 58, 112, 107, 58>>)
\* "p1"
P1 == strToBytes32(<<112, 49>>)
\* "vax-dose-2"
Dose2 == strToBytes32(<<118, 97, 120, 45, 100, 111, 115, 101, 45, 50>>)
\* "vax-dose-1"
Dose1 == strToBytes32(<<118, 97, 120, 45, 100, 111, 115, 101, 45, 49>>)

SecretKeys == {SK, WK}
\* patient ids and payloads are both free 32-byte values
Values == {P1, Dose2, Dose1}

(***************************************************************************)
(* State.                                                                  *)
(***************************************************************************)
VARIABLES
  credentialState,   \* ledger: EMPTY | ACTIVE | REVOKED
  credentialHash,    \* ledger: Bytes<32>
  issuerPubKey,      \* ledger: Bytes<32>
  attestationCount,  \* ledger: Counter
  lastVerification,  \* ledger: NONE | VALID | INVALID
  sequence,          \* ledger: Counter
  privateState,      \* the caller's local MidHealthPrivateState
  attempt,           \* the last step taken: operation and its outcome
  issued,            \* the witnesses and sequence of the committed issueCredential
  clients,           \* submission pipeline: each caller's operation in progress
  started,           \* submission pipeline: operations evaluated so far
  wallet,            \* App: WalletState {connected, address, api}
  role,              \* App: "issuer" | "prover" | "verifier" | null
  connecting,        \* App: connectWallet is running
  status,            \* App: the status line
  call,              \* App: the running connectWallet call, its promise and its timer
  roleCard           \* App: the role selection card: hidden, shown or animating out

slot == <<credentialState, credentialHash, issuerPubKey, attestationCount,
          lastVerification, sequence>>
pipelineVars == <<clients, started>>
appVars == <<wallet, role, connecting, status, call, roleCard>>
vars == <<credentialState, credentialHash, issuerPubKey, attestationCount,
          lastVerification, sequence, privateState, attempt, issued,
          pipelineVars, appVars>>

\* createMidHealthPrivateState(secretKey, patientId, credential)
createMidHealthPrivateState(secretKey, patientId, credential) ==
  [secretKey |-> secretKey, patientId |-> patientId, credential |-> credential]

PrivateStates ==
  {createMidHealthPrivateState(k, p, c) : k \in SecretKeys, p \in Values, c \in Values}

\* witnesses: each returns [privateState, value]
\* an issuerSecretKey that wipes the key from the private state it returns
issuerSecretKey_clearsKey(ps) == <<[ps EXCEPT !.secretKey = ZeroBytes], ps.secretKey>>

issuerSecretKey(ps) == <<ps, ps.secretKey>>
patientSecretId(ps) == <<ps, ps.patientId>>

\* a credentialPayload that hands out the patient id field
credentialPayload_wrongField(ps) == <<ps, ps.patientId>>

credentialPayload(ps) == <<ps, ps.credential>>

\* a Counter increment that leaves the counter alone
increment_lost(counter) == counter

\* Counter.increment(1): state.attestationCount++
increment(counter) == counter + 1

NoIssue == [done |-> FALSE]

\* the callers whose submissions race
Callers == {"c1", "c2"}

\* a caller with no operation in progress
Idle ==
  [stage |-> "idle", op |-> "none",
   ps |-> createMidHealthPrivateState(ZeroBytes, ZeroBytes, ZeroBytes),
   read |-> <<>>, next |-> <<>>, result |-> "none",
   resubmitted |-> FALSE, applied |-> <<>>]

PipelineInit ==
  /\ clients = [c \in Callers |-> Idle]
  /\ started = 0

\* useState initial values of App
AppInit ==
  /\ wallet = [connected |-> FALSE, address |-> "null", api |-> "null"]
  /\ role = "null"
  /\ connecting = FALSE
  /\ status = ""
  /\ call = [pc |-> "idle", promise |-> "none", timer |-> "none", race |-> "none"]
  /\ roleCard = "hidden"

Init ==
  /\ credentialState = EMPTY
  /\ credentialHash = ZeroBytes
  /\ issuerPubKey = ZeroBytes
  /\ attestationCount = 0
  /\ lastVerification = NONE
  /\ sequence = 1
  /\ privateState = createMidHealthPrivateState(ZeroBytes, ZeroBytes, ZeroBytes)
  /\ attempt = [op |-> "deploy", result |-> "ok"]
  /\ issued = NoIssue
  /\ PipelineInit
  /\ AppInit


(***************************************************************************)
(* Operations.                                                             *)
(***************************************************************************)
\* the user enters the secret data of the next operation into local private state
setPrivateState ==
  /\ \E ps \in PrivateStates : privateState' = ps
  /\ attempt' = [op |-> "setPrivateState", result |-> "ok"]
  /\ UNCHANGED <<slot, issued,
                 pipelineVars, appVars>>

\* an issue guard that only refuses a revoked slot
canIssue_overActive == credentialState # REVOKED

\* an issue guard that only refuses an active slot
canIssue_overRevoked == credentialState # ACTIVE

\* the circuit asserts credentialState == EMPTY
canIssue == credentialState = EMPTY

\* issueCredential(): EMPTY -> ACTIVE
issueCredential ==
  LET issuerSk == issuerSecretKey(privateState)[2]
      patientId == patientSecretId(privateState)[2]
      payload == credentialPayload(privateState)[2]
      pubKey == Derive(issuerSk, sequence)
      credHash == Commit(patientId, payload, pubKey)
  IN IF ~canIssue
     THEN /\ attempt' = [op |-> "issueCredential", result |-> "IllegalTransition"]
          /\ UNCHANGED <<slot, privateState, issued,
                 pipelineVars, appVars>>
     ELSE /\ attestationCount < MaxCount
          /\ issuerPubKey' = pubKey
          /\ credentialHash' = credHash
          /\ credentialState' = ACTIVE
          /\ attestationCount' = increment(attestationCount)
          /\ attempt' = [op |-> "issueCredential", result |-> "ok"]
          /\ issued' = [done |-> TRUE, secretKey |-> issuerSk, patientId |-> patientId,
                        credential |-> payload, sequence |-> sequence]
          /\ UNCHANGED <<lastVerification, sequence, privateState,
                 pipelineVars, appVars>>

\* a prove guard that only refuses an empty slot
canProve_afterRevoke == credentialState # EMPTY

\* Prove is admitted only against an Active slot
canProve == credentialState = ACTIVE

\* a hash comparison that reports a match for every pair
isValid_always(computedHash, onChainHash) == TRUE

\* bytesToHex(computedHash) === bytesToHex(onChainHash)
isValid(computedHash, onChainHash) == computedHash = onChainHash

\* proveVaccinated(): ACTIVE -> ACTIVE, records VALID or INVALID
proveVaccinated ==
  LET patientId == patientSecretId(privateState)[2]
      payload == credentialPayload(privateState)[2]
      computedHash == Commit(patientId, payload, issuerPubKey)
  IN IF ~canProve
     THEN /\ attempt' = [op |-> "proveVaccinated", result |-> "InvalidState"]
          /\ UNCHANGED <<slot, privateState, issued,
                 pipelineVars, appVars>>
     ELSE /\ attestationCount < MaxCount
          /\ lastVerification' = IF isValid(computedHash, credentialHash) THEN VALID ELSE INVALID
          /\ attestationCount' = increment(attestationCount)
          /\ attempt' = [op |-> "proveVaccinated", result |-> "ok"]
          /\ UNCHANGED <<credentialState, credentialHash, issuerPubKey, sequence,
                         privateState, issued,
                 pipelineVars, appVars>>

\* an ownership check that lets every key through
canRevoke_anyKey(candidatePub, issuerPub) == TRUE

\* an ownership check with the comparison inverted
canRevoke_inverted(candidatePub, issuerPub) == candidatePub # issuerPub

\* bytesToHex(candidatePub) === bytesToHex(issuerPub)
canRevoke(candidatePub, issuerPub) == candidatePub = issuerPub

\* a revoke guard that only refuses an empty slot
revocable_afterRevoke == credentialState # EMPTY

\* Revoke is admitted only against an Active slot
revocable == credentialState = ACTIVE

\* revokeCredential(): ACTIVE -> REVOKED, by the issuer only
revokeCredential ==
  LET issuerSk == issuerSecretKey(privateState)[2]
      candidatePubKey == Derive(issuerSk, sequence)
  IN IF ~revocable
     THEN /\ attempt' = [op |-> "revokeCredential", result |-> "IllegalTransition"]
          /\ UNCHANGED <<slot, privateState, issued,
                 pipelineVars, appVars>>
     ELSE IF ~canRevoke(candidatePubKey, issuerPubKey)
     THEN /\ attempt' = [op |-> "revokeCredential", result |-> "Unauthorized"]
          /\ UNCHANGED <<slot, privateState, issued,
                 pipelineVars, appVars>>
     ELSE /\ attestationCount < MaxCount
          /\ credentialState' = REVOKED
          /\ attestationCount' = increment(attestationCount)
          /\ attempt' = [op |-> "revokeCredential", result |-> "ok"]
          /\ UNCHANGED <<credentialHash, issuerPubKey, lastVerification, sequence,
                         privateState, issued,
                 pipelineVars, appVars>>

\* the rule outside the three circuits that moves the epoch counter on
advanceSequence ==
  /\ sequence < MaxSequence
  /\ sequence' = increment(sequence)
  /\ attempt' = [op |-> "advanceSequence", result |-> "ok"]
  /\ UNCHANGED <<credentialState, credentialHash, issuerPubKey, attestationCount,
                 lastVerification, privateState, issued,
                 pipelineVars, appVars>>

\* the three circuits, as recorded in attempt.op
Circuits == {"issueCredential", "proveVaccinated", "revokeCredential"}

\* the three circuits as one function of the slot read, the operation and the
\* caller's private state: the slot the operation leaves and its outcome
apply(s, op, ps) ==
  LET issuerSk == issuerSecretKey(ps)[2]
      patientId == patientSecretId(ps)[2]
      payload == credentialPayload(ps)[2]
      pubKey == Derive(issuerSk, s[6])
  IN CASE op = "issueCredential" ->
            IF s[1] # EMPTY
            THEN [slot |-> s, result |-> "IllegalTransition"]
            ELSE [slot |-> <<ACTIVE, Commit(patientId, payload, pubKey), pubKey,
                             increment(s[4]), s[5], s[6]>>,
                  result |-> "ok"]
       [] op = "proveVaccinated" ->
            IF s[1] # ACTIVE
            THEN [slot |-> s, result |-> "InvalidState"]
            ELSE [slot |-> <<s[1], s[2], s[3], increment(s[4]),
                             IF isValid(Commit(patientId, payload, s[3]), s[2])
                             THEN VALID ELSE INVALID,
                             s[6]>>,
                  result |-> "ok"]
       [] op = "revokeCredential" ->
            IF s[1] # ACTIVE
            THEN [slot |-> s, result |-> "IllegalTransition"]
            ELSE IF ~canRevoke(pubKey, s[3])
            THEN [slot |-> s, result |-> "Unauthorized"]
            ELSE [slot |-> <<REVOKED, s[2], s[3], increment(s[4]), s[5], s[6]>>,
                  result |-> "ok"]

Next ==
  \/ setPrivateState
  \/ issueCredential
  \/ proveVaccinated
  \/ revokeCredential
  \/ advanceSequence

Spec == Init /\ [][Next]_vars

\* private states built with createMidHealthPrivateState's default arguments:
\* the placeholder key of the deployment, patientId and credential left at
\* new Uint8Array(32)
DefaultedPrivateStates ==
  {createMidHealthPrivateState(k, p, ZeroBytes) :
     k \in SecretKeys \cup {ZeroBytes}, p \in Values \cup {ZeroBytes}}

\* the deployed slot, with a private state created from default arguments
InitDefaults ==
  /\ credentialState = EMPTY
  /\ credentialHash = ZeroBytes
  /\ issuerPubKey = ZeroBytes
  /\ attestationCount = 0
  /\ lastVerification = NONE
  /\ sequence = 1
  /\ privateState \in DefaultedPrivateStates
  /\ attempt = [op |-> "deploy", result |-> "ok"]
  /\ issued = NoIssue
  /\ PipelineInit
  /\ AppInit

SpecDefaults == InitDefaults /\ [][Next]_vars

TypeOK ==
  /\ credentialState \in CredentialState
  /\ lastVerification \in VerificationResult
  /\ attestationCount \in 0..MaxCount
  /\ sequence \in 1..MaxSequence
  /\ DOMAIN credentialHash = 1..HashLen
  /\ DOMAIN issuerPubKey = 1..HashLen

(***************************************************************************)
(* The verifier: reads the public ledger state and decides.                *)
(***************************************************************************)
\* the PublicLedgerState the verifier reads from the indexer
readLedger ==
  [credentialState |-> credentialState, credentialHash |-> credentialHash,
   issuerPubKey |-> issuerPubKey, attestationCount |-> attestationCount,
   lastVerification |-> lastVerification]

\* a decision that looks at lastVerification only
verifierDecision_noStateCheck(state) ==
  IF state.lastVerification = VALID
  THEN [accepted |-> TRUE, reason |-> "Valid proof verified on-chain"]
  ELSE IF state.lastVerification = INVALID
  THEN [accepted |-> FALSE, reason |-> "Proof verification failed - data mismatch"]
  ELSE [accepted |-> FALSE, reason |-> "No verification attempt has been made yet"]

\* a decision that tests a recorded INVALID before the state
verifierDecision_invalidFirst(state) ==
  IF state.lastVerification = INVALID
  THEN [accepted |-> FALSE, reason |-> "Proof verification failed - data mismatch"]
  ELSE IF state.credentialState = EMPTY
  THEN [accepted |-> FALSE, reason |-> "No credential has been issued at this address"]
  ELSE IF state.credentialState = REVOKED
  THEN [accepted |-> FALSE, reason |-> "Credential has been revoked by the issuer"]
  ELSE IF state.lastVerification = VALID
  THEN [accepted |-> TRUE, reason |-> "Valid proof verified on-chain"]
  ELSE [accepted |-> FALSE, reason |-> "No verification attempt has been made yet"]

\* verifierDecision(state): { accepted, reason }
verifierDecision(state) ==
  IF state.credentialState = EMPTY
  THEN [accepted |-> FALSE, reason |-> "No credential has been issued at this address"]
  ELSE IF state.credentialState = REVOKED
  THEN [accepted |-> FALSE, reason |-> "Credential has been revoked by the issuer"]
  ELSE IF state.lastVerification = VALID
  THEN [accepted |-> TRUE, reason |-> "Valid proof verified on-chain"]
  ELSE IF state.lastVerification = INVALID
  THEN [accepted |-> FALSE, reason |-> "Proof verification failed - data mismatch"]
  ELSE [accepted |-> FALSE, reason |-> "No verification attempt has been made yet"]

\* the verifier reads the ledger and decides; nothing on the ledger changes
verify ==
  /\ attempt' = [op |-> "verifierDecision", result |-> verifierDecision(readLedger)]
  /\ UNCHANGED <<slot, privateState, issued,
                 pipelineVars, appVars>>

\* digests a ledger read may show
LedgerDigests == {ZeroBytes, Derive(SK, 1), Commit(P1, Dose2, Derive(SK, 1))}

\* the verifier is handed any public ledger state of the declared type
InitVerifier ==
  /\ credentialState \in CredentialState
  /\ credentialHash \in LedgerDigests
  /\ issuerPubKey \in LedgerDigests
  /\ attestationCount \in 0..MaxCount
  /\ lastVerification \in VerificationResult
  /\ sequence = 1
  /\ privateState = createMidHealthPrivateState(ZeroBytes, ZeroBytes, ZeroBytes)
  /\ attempt = [op |-> "deploy", result |-> "ok"]
  /\ issued = NoIssue
  /\ PipelineInit
  /\ AppInit

NextVerifier == verify

SpecVerifier == InitVerifier /\ [][NextVerifier]_vars

(***************************************************************************)
(* The submission pipeline: a caller reads the slot, evaluates the         *)
(* operation locally, hands the decided outcome to the Proof Backend,      *)
(* submits the certificate, and the ledger applies submissions one after   *)
(* the other.                                                              *)
(***************************************************************************)
\* the private states of the two callers: the issuer, and a caller holding
\* another key and another payload
CallerStates ==
  {createMidHealthPrivateState(SK, P1, Dose2), createMidHealthPrivateState(WK, P1, Dose1)}

PredicateErrors == {"IllegalTransition", "Unauthorized", "InvalidState"}

\* the caller reads the current slot and evaluates the operation locally
evaluate(c) ==
  /\ clients[c].stage \in {"idle", "done"}
  /\ started < MaxOperations
  /\ \E op \in Circuits, ps \in CallerStates :
       \E r \in {apply(slot, op, ps)} :
          clients' = [clients EXCEPT ![c] =
            [stage |-> "decided", op |-> op, ps |-> ps, read |-> slot,
             next |-> r.slot, result |-> r.result,
             resubmitted |-> FALSE, applied |-> <<>>]]
  /\ started' = started + 1
  /\ UNCHANGED <<slot, privateState, attempt, issued, appVars>>

\* a hand-off that sends every evaluated operation on to the Proof Backend
mayRequestProof_always(sub) == TRUE

\* only an operation whose predicate held is handed to the Proof Backend
mayRequestProof(sub) == sub.result = "ok"

\* a predicate failure is returned to the caller; nothing leaves the caller
rejectLocally(c) ==
  /\ clients[c].stage = "decided"
  /\ ~mayRequestProof(clients[c])
  /\ clients' = [clients EXCEPT ![c].stage = "done"]
  /\ UNCHANGED <<slot, privateState, attempt, issued, started, appVars>>

\* prove(predicateId, publicInputs, privateWitnesses) is called
requestProof(c) ==
  /\ clients[c].stage = "decided"
  /\ mayRequestProof(clients[c])
  /\ clients' = [clients EXCEPT ![c].stage = "proving"]
  /\ UNCHANGED <<slot, privateState, attempt, issued, started, appVars>>

\* the Proof Backend returns a certificate bound to the new public state
certificate(c) ==
  /\ clients[c].stage = "proving"
  /\ clients' = [clients EXCEPT ![c].stage = "certified"]
  /\ UNCHANGED <<slot, privateState, attempt, issued, started, appVars>>

\* the Proof Backend fails: ProofGenerationFailed is propagated
proofFailure(c) ==
  /\ clients[c].stage = "proving"
  /\ clients' = [clients EXCEPT ![c].stage = "done",
                                ![c].result = "ProofGenerationFailed"]
  /\ UNCHANGED <<slot, privateState, attempt, issued, started, appVars>>

\* the certificate is handed to the Transaction Submitter
submit(c) ==
  /\ clients[c].stage = "certified"
  /\ clients' = [clients EXCEPT ![c].stage = "inFlight"]
  /\ UNCHANGED <<slot, privateState, attempt, issued, started, appVars>>

\* transport or ledger-layer failure after the certificate was produced
submissionFailure(c) ==
  /\ clients[c].stage = "inFlight"
  /\ clients' = [clients EXCEPT ![c].stage = "failed",
                                ![c].result = "SubmissionFailed"]
  /\ UNCHANGED <<slot, privateState, attempt, issued, started, appVars>>

\* a caller that resubmits whatever the slot has become
mayResubmit_always(sub, current) == TRUE

\* the same certificate is resubmitted if the slot has not moved
mayResubmit(sub, current) == current = sub.read

resubmit(c) ==
  /\ clients[c].stage = "failed"
  /\ mayResubmit(clients[c], slot)
  /\ clients' = [clients EXCEPT ![c].stage = "inFlight",
                                ![c].resubmitted = TRUE]
  /\ UNCHANGED <<slot, privateState, attempt, issued, started, appVars>>

\* the slot has moved: the caller gives the certificate up and must restart
\* from a fresh read
restart(c) ==
  /\ clients[c].stage = "failed"
  /\ ~mayResubmit(clients[c], slot)
  /\ clients' = [clients EXCEPT ![c].stage = "done"]
  /\ UNCHANGED <<slot, privateState, attempt, issued, started, appVars>>

\* a ledger that writes the slot value the submission was built with
ledgerApply_stale(current, sub) == [slot |-> sub.next, result |-> "ok"]

\* the ledger re-evaluates the operation against the current slot
ledgerApply(current, sub) == apply(current, sub.op, sub.ps)

\* the ordering authority takes the next submission and applies it
include(c) ==
  /\ clients[c].stage = "inFlight"
  /\ \E r \in {ledgerApply(slot, clients[c])} :
        /\ credentialState' = r.slot[1]
        /\ credentialHash' = r.slot[2]
        /\ issuerPubKey' = r.slot[3]
        /\ attestationCount' = r.slot[4]
        /\ lastVerification' = r.slot[5]
        /\ sequence' = r.slot[6]
        /\ clients' = [clients EXCEPT ![c].stage = "done",
                                      ![c].result = r.result,
                                      ![c].applied = slot]
  /\ UNCHANGED <<privateState, attempt, issued, started, appVars>>

NextPipeline ==
  \E c \in Callers :
    \/ evaluate(c)
    \/ rejectLocally(c)
    \/ requestProof(c)
    \/ certificate(c)
    \/ proofFailure(c)
    \/ submit(c)
    \/ submissionFailure(c)
    \/ resubmit(c)
    \/ restart(c)
    \/ include(c)

SpecPipeline == Init /\ [][NextPipeline]_vars

(***************************************************************************)
(* The App wallet flow.  connectWallet is an async function: each action   *)
(* below is one of its synchronous stretches between two awaits.           *)
(***************************************************************************)
Roles == {"issuer", "prover", "verifier"}

Disconnected == [connected |-> FALSE, address |-> "null", api |-> "null"]

NoCall == [pc |-> "idle", promise |-> "none", timer |-> "none", race |-> "none"]

\* click on "Connect Lace Wallet": rendered while !wallet.connected, disabled
\* while connecting; runs up to the await of connectWithTimeout
connectWallet ==
  /\ ~wallet.connected
  /\ ~connecting
  /\ \E detected \in BOOLEAN :
       IF ~detected
       THEN /\ status' = "Lace wallet not detected"
            /\ connecting' = FALSE
            /\ call' = NoCall
       ELSE /\ status' = "Approve the connection"
            /\ connecting' = TRUE
            /\ call' = [pc |-> "connect", promise |-> "pending",
                        timer |-> "armed", race |-> "none"]
  /\ UNCHANGED <<wallet, role, roleCard, slot, privateState, attempt, issued,
                 pipelineVars>>

\* lace.connect(networkId) resolves; the race is won unless it is settled
connectResolves ==
  /\ call.promise = "pending"
  /\ IF call.pc = "connect" /\ call.race = "none"
     THEN call' = [call EXCEPT !.promise = "resolved", !.race = "connect",
                               !.pc = "getConfiguration"]
     ELSE call' = [call EXCEPT !.promise = "resolved"]
  /\ UNCHANGED <<wallet, role, connecting, status, roleCard, slot, privateState,
                 attempt, issued, pipelineVars>>

\* lace.connect(networkId) rejects: inner catch, setConnecting(false), return
connectRejects ==
  /\ call.promise = "pending"
  /\ IF call.pc = "connect" /\ call.race = "none"
     THEN /\ call' = [call EXCEPT !.promise = "rejected", !.race = "rejected",
                                  !.pc = "idle"]
          /\ status' = "connect rejected"
          /\ connecting' = FALSE
     ELSE /\ call' = [call EXCEPT !.promise = "rejected"]
          /\ UNCHANGED <<status, connecting>>
  /\ UNCHANGED <<wallet, role, roleCard, slot, privateState, attempt, issued,
                 pipelineVars>>

\* the 30000 ms timer fires: it rejects the race unless the race is settled
timeout ==
  /\ call.timer = "armed"
  /\ IF call.pc = "connect" /\ call.race = "none"
     THEN /\ call' = [call EXCEPT !.timer = "fired", !.race = "timeout",
                                  !.pc = "idle"]
          /\ status' = "Wallet connection timed out"
          /\ connecting' = FALSE
     ELSE /\ call' = [call EXCEPT !.timer = "fired"]
          /\ UNCHANGED <<status, connecting>>
  /\ UNCHANGED <<wallet, role, roleCard, slot, privateState, attempt, issued,
                 pipelineVars>>

\* api.getConfiguration() settles; a rejection falls back to MIDNIGHT_CONFIG
getConfiguration ==
  /\ call.pc = "getConfiguration"
  /\ call' = [call EXCEPT !.pc = "getShieldedAddresses"]
  /\ UNCHANGED <<wallet, role, connecting, status, roleCard, slot, privateState,
                 attempt, issued, pipelineVars>>

\* setWallet({connected: true, address, api}); setStatus; finally
\* setConnecting(false).  address.slice may throw after setWallet: the outer
\* catch then writes the failure into the status line
connected(address) ==
  /\ wallet' = [connected |-> TRUE, address |-> address, api |-> "api"]
  /\ \E st \in {"Connected", "Connection failed"} : status' = st
  /\ connecting' = FALSE
  /\ call' = [call EXCEPT !.pc = "idle"]
  /\ roleCard' = "shown"
  /\ UNCHANGED <<role, slot, privateState, attempt, issued, pipelineVars>>

\* api.getShieldedAddresses() settles
getShieldedAddresses ==
  /\ call.pc = "getShieldedAddresses"
  /\ \/ \E address \in {"shielded", "unknown"} : connected(address)
     \/ /\ call' = [call EXCEPT !.pc = "getUnshieldedAddress"]
        /\ UNCHANGED <<wallet, role, connecting, status, roleCard, slot,
                       privateState, attempt, issued, pipelineVars>>

\* api.getUnshieldedAddress() settles
getUnshieldedAddress ==
  /\ call.pc = "getUnshieldedAddress"
  /\ \E address \in {"unshielded", "unknown"} : connected(address)

\* click on "Disconnect": rendered while wallet.connected; the role
\* selection card leaves through its exit animation
disconnectWallet ==
  /\ wallet.connected
  /\ wallet' = Disconnected
  /\ role' = "null"
  /\ status' = "Disconnected"
  /\ roleCard' = "exiting"
  /\ UNCHANGED <<connecting, call, slot, privateState, attempt, issued,
                 pipelineVars>>

\* click on a role card: onClick={() => setRole(r.id)} on a mounted card
setRole ==
  /\ roleCard \in {"shown", "exiting"}
  /\ \E r \in Roles : role' = r
  /\ UNCHANGED <<wallet, connecting, status, call, roleCard, slot, privateState,
                 attempt, issued, pipelineVars>>

\* the exit animation of the role selection card is over: it is unmounted
exitComplete ==
  /\ roleCard = "exiting"
  /\ roleCard' = "hidden"
  /\ UNCHANGED <<wallet, role, connecting, status, call, slot, privateState,
                 attempt, issued, pipelineVars>>

NextWallet ==
  \/ connectWallet
  \/ connectResolves
  \/ connectRejects
  \/ timeout
  \/ getConfiguration
  \/ getShieldedAddresses
  \/ getUnshieldedAddress
  \/ disconnectWallet
  \/ setRole
  \/ exitComplete

SpecWallet == Init /\ [][NextWallet]_vars

(***************************************************************************)
(* Properties.                                                             *)
(***************************************************************************)

\* C1: issueCredential attempted on an ACTIVE or REVOKED slot is rejected with
\* IllegalTransition, whatever the witnesses, and no slot field changes.
C1_IssueGuard ==
  [][ (attempt'.op = "issueCredential" /\ credentialState \in {ACTIVE, REVOKED})
        => (attempt'.result = "IllegalTransition" /\ UNCHANGED slot) ]_vars

\* C1 witness: an issue attempt has been rejected on a revoked slot
C1_Witness ==
  /\ attempt = [op |-> "issueCredential", result |-> "IllegalTransition"]
  /\ credentialState = REVOKED

\* C2: issueCredential attempted on an EMPTY slot succeeds: the slot becomes
\* ACTIVE, issuerPubKey is Derive(secretKey, sequence), credentialHash is
\* Commit(patientId, payload, issuerPubKey), attestationCount goes from 0 to 1,
\* lastVerification stays NONE and sequence is unchanged.
C2_IssueEffect ==
  [][ (attempt'.op = "issueCredential" /\ credentialState = EMPTY)
        => /\ attempt'.result = "ok"
           /\ credentialState' = ACTIVE
           /\ issuerPubKey' = Derive(privateState.secretKey, sequence)
           /\ credentialHash' = Commit(privateState.patientId, privateState.credential,
                                       Derive(privateState.secretKey, sequence))
           /\ attestationCount = 0
           /\ attestationCount' = 1
           /\ lastVerification = NONE
           /\ lastVerification' = NONE
           /\ sequence' = sequence ]_vars

\* C2 witness: a credential has just been issued from distinct id and payload
C2_Witness ==
  /\ attempt = [op |-> "issueCredential", result |-> "ok"]
  /\ credentialState = ACTIVE
  /\ privateState.patientId # privateState.credential
  /\ attestationCount = 1

\* C3 (as claimed): a Prove on an ACTIVE slot records VALID when the id and the
\* payload are the issued ones, and INVALID when the pair differs from the
\* issued pair in the id or in the payload.
C3_ProveDecision ==
  [][ (attempt'.op = "proveVaccinated" /\ credentialState = ACTIVE)
        => lastVerification' =
             IF /\ privateState.patientId = issued.patientId
                /\ privateState.credential = issued.credential
             THEN VALID ELSE INVALID ]_vars

\* C4: proveVaccinated attempted on an EMPTY or REVOKED slot is rejected with
\* InvalidState; lastVerification, attestationCount and every other slot field
\* keep their values.
C4_ProveGuard ==
  [][ (attempt'.op = "proveVaccinated" /\ credentialState \in {EMPTY, REVOKED})
        => (attempt'.result = "InvalidState" /\ UNCHANGED slot) ]_vars

\* C4 witness: a prove attempt with the issued id and payload has been rejected
\* on a revoked slot
C4_Witness ==
  /\ attempt = [op |-> "proveVaccinated", result |-> "InvalidState"]
  /\ credentialState = REVOKED
  /\ privateState.patientId = issued.patientId
  /\ privateState.credential = issued.credential

\* C5: revokeCredential on an ACTIVE slot with a key whose Derive(key, sequence)
\* differs from the stored issuerPubKey fails with Unauthorized and no slot field
\* changes.
C5_RevokeUnauthorized ==
  [][ (/\ attempt'.op = "revokeCredential"
       /\ credentialState = ACTIVE
       /\ Derive(privateState.secretKey, sequence) # issuerPubKey)
        => (attempt'.result = "Unauthorized" /\ UNCHANGED slot) ]_vars

\* C5 witness: a revoke with another key has been refused on an active slot
C5_Witness ==
  /\ attempt = [op |-> "revokeCredential", result |-> "Unauthorized"]
  /\ credentialState = ACTIVE
  /\ privateState.secretKey # issued.secretKey

\* C6: revokeCredential on an ACTIVE slot with the key used at Issue, while
\* sequence has the value it had at Issue, succeeds: the state becomes REVOKED,
\* attestationCount rises by exactly 1, and credentialHash, issuerPubKey and
\* lastVerification keep their values.
C6_RevokeByIssuer ==
  [][ (/\ attempt'.op = "revokeCredential"
       /\ credentialState = ACTIVE
       /\ privateState.secretKey = issued.secretKey
       /\ sequence = issued.sequence)
        => /\ attempt'.result = "ok"
           /\ credentialState' = REVOKED
           /\ attestationCount' = attestationCount + 1
           /\ UNCHANGED <<credentialHash, issuerPubKey, lastVerification>> ]_vars

\* C6 witness: the issuer has just revoked, after a recorded verification
C6_Witness ==
  /\ attempt = [op |-> "revokeCredential", result |-> "ok"]
  /\ credentialState = REVOKED
  /\ privateState.secretKey = issued.secretKey
  /\ sequence = issued.sequence
  /\ lastVerification = VALID

\* C7: revokeCredential attempted on an EMPTY or REVOKED slot fails with
\* IllegalTransition whatever the key, also a key that would pass the ownership
\* check, and no slot field changes.
C7_RevokeGuard ==
  [][ (attempt'.op = "revokeCredential" /\ credentialState \in {EMPTY, REVOKED})
        => (attempt'.result = "IllegalTransition" /\ UNCHANGED slot) ]_vars

\* C7 witness: a revoke by the key that passes the ownership check has been
\* rejected on a revoked slot
C7_Witness ==
  /\ attempt = [op |-> "revokeCredential", result |-> "IllegalTransition"]
  /\ credentialState = REVOKED
  /\ canRevoke(Derive(privateState.secretKey, sequence), issuerPubKey)

\* C8: attestationCount rises by exactly 1 on every committed circuit (Issue,
\* Prove recorded VALID, Prove recorded INVALID, Revoke) and keeps its value on
\* every other step, so it never decreases.
C8_CounterMonotonic ==
  [][ IF attempt'.op \in Circuits /\ attempt'.result = "ok"
      THEN attestationCount' = attestationCount + 1
      ELSE attestationCount' = attestationCount ]_vars

\* C8 witness: after Issue and two Proves, the last one recorded INVALID
C8_Witness ==
  /\ attempt = [op |-> "proveVaccinated", result |-> "ok"]
  /\ lastVerification = INVALID
  /\ attestationCount = 3

\* C9 (as claimed): credentialHash and issuerPubKey are both all-zero exactly
\* when the slot is EMPTY, and an ACTIVE slot has neither of them all-zero.
C9_ZeroIffEmpty ==
  /\ (credentialHash = ZeroBytes /\ issuerPubKey = ZeroBytes) <=> (credentialState = EMPTY)
  /\ credentialState = ACTIVE => (credentialHash # ZeroBytes /\ issuerPubKey # ZeroBytes)

\* C10: REVOKED is terminal: on a REVOKED slot no attempt of Issue, Prove or
\* Revoke, with any witnesses, changes the state or any other slot field.
C10_RevokedTerminal ==
  [][ (credentialState = REVOKED /\ attempt'.op \in Circuits) => UNCHANGED slot ]_vars

\* C10 witness: an issue has been attempted on a revoked slot
C10_Witness ==
  /\ credentialState = REVOKED
  /\ attempt.op = "issueCredential"
  /\ privateState.secretKey = issued.secretKey


\* C11: the state changes only from EMPTY to ACTIVE, by a committed Issue, and
\* from ACTIVE to REVOKED, by a committed Revoke; it never goes from EMPTY to
\* REVOKED, never returns to EMPTY and never goes from REVOKED to ACTIVE.
C11_OnlyTwoTransitions ==
  [][ credentialState' # credentialState
        => \/ /\ credentialState = EMPTY
              /\ credentialState' = ACTIVE
              /\ attempt' = [op |-> "issueCredential", result |-> "ok"]
           \/ /\ credentialState = ACTIVE
              /\ credentialState' = REVOKED
              /\ attempt' = [op |-> "revokeCredential", result |-> "ok"] ]_vars

\* C11 witness: the slot has gone through both changes and the revoke has just
\* been committed
C11_Witness ==
  /\ credentialState = REVOKED
  /\ attempt = [op |-> "revokeCredential", result |-> "ok"]
  /\ issued.done

\* C12: once Issue has written issuerPubKey and credentialHash, no later step
\* (Prove of either outcome, Revoke, a rejected operation, a sequence advance)
\* changes either of them.
C12_KeyAndHashImmutable ==
  [][ credentialState # EMPTY => UNCHANGED <<credentialHash, issuerPubKey>> ]_vars

\* C12 witness: after a recorded Prove, a Revoke and a sequence advance the two
\* fields still hold what Issue wrote
C12_Witness ==
  /\ credentialState = REVOKED
  /\ lastVerification = INVALID
  /\ sequence # issued.sequence
  /\ issuerPubKey = Derive(issued.secretKey, issued.sequence)
  /\ credentialHash = Commit(issued.patientId, issued.credential, issuerPubKey)

\* C13: lastVerification changes only by a Prove committed on an ACTIVE slot, so
\* it differs from NONE only after such a Prove; Issue, Revoke and rejected
\* operations never move it.
C13_VerificationOnlyByProve ==
  [][ lastVerification' # lastVerification
        => /\ attempt' = [op |-> "proveVaccinated", result |-> "ok"]
           /\ credentialState = ACTIVE ]_vars

\* C13 witness: a revoked slot that was never proved still shows NONE after a
\* rejected Prove
C13_Witness ==
  /\ credentialState = REVOKED
  /\ lastVerification = NONE
  /\ attempt = [op |-> "proveVaccinated", result |-> "InvalidState"]

\* the slot before the scenario: deployed, sequence 1
E2E_Slot0 == <<EMPTY, ZeroBytes, ZeroBytes, 0, NONE, 1>>
\* the slot after Issue(p1, vax-dose-2, SK)
E2E_Slot1 == <<ACTIVE, Commit(P1, Dose2, Derive(SK, 1)), Derive(SK, 1), 1, NONE, 1>>
\* the slot after Prove(p1, vax-dose-2)
E2E_Slot2 == <<ACTIVE, Commit(P1, Dose2, Derive(SK, 1)), Derive(SK, 1), 2, VALID, 1>>
\* the slot after Prove(p1, vax-dose-1)
E2E_Slot3 == <<ACTIVE, Commit(P1, Dose2, Derive(SK, 1)), Derive(SK, 1), 3, INVALID, 1>>
\* the slot after Revoke(SK)
E2E_Slot4 == <<REVOKED, Commit(P1, Dose2, Derive(SK, 1)), Derive(SK, 1), 4, INVALID, 1>>

\* C14: from the deployed slot with sequence 1, Issue(p1, vax-dose-2, SK) gives
\* ACTIVE with count 1; then Prove(p1, vax-dose-2) gives VALID with count 2; then
\* Prove(p1, vax-dose-1) gives INVALID with count 3; then Revoke(SK) gives REVOKED
\* with count 4; then Prove(p1, vax-dose-2) is rejected with InvalidState and the
\* count is still 4.
C14_EndToEnd ==
  [][ /\ (/\ slot = E2E_Slot0
          /\ privateState = createMidHealthPrivateState(SK, P1, Dose2)
          /\ attempt'.op = "issueCredential")
           => (attempt'.result = "ok" /\ slot' = E2E_Slot1)
      /\ (/\ slot = E2E_Slot1
          /\ privateState.patientId = P1 /\ privateState.credential = Dose2
          /\ attempt'.op = "proveVaccinated")
           => (attempt'.result = "ok" /\ slot' = E2E_Slot2)
      /\ (/\ slot = E2E_Slot2
          /\ privateState.patientId = P1 /\ privateState.credential = Dose1
          /\ attempt'.op = "proveVaccinated")
           => (attempt'.result = "ok" /\ slot' = E2E_Slot3)
      /\ (/\ slot = E2E_Slot3
          /\ privateState.secretKey = SK
          /\ attempt'.op = "revokeCredential")
           => (attempt'.result = "ok" /\ slot' = E2E_Slot4)
      /\ (/\ slot = E2E_Slot4
          /\ privateState.patientId = P1 /\ privateState.credential = Dose2
          /\ attempt'.op = "proveVaccinated")
           => (attempt'.result = "InvalidState" /\ slot' = E2E_Slot4) ]_vars

\* C14 witness: the end of the scenario, the last Prove rejected on the slot
\* left by the four committed operations
C14_Witness ==
  /\ slot = E2E_Slot4
  /\ issued = [done |-> TRUE, secretKey |-> SK, patientId |-> P1,
               credential |-> Dose2, sequence |-> 1]
  /\ privateState.patientId = P1 /\ privateState.credential = Dose2
  /\ attempt = [op |-> "proveVaccinated", result |-> "InvalidState"]


\* C15: the verifier decision accepts exactly when the state is ACTIVE and
\* lastVerification is VALID, over all nine combinations of state and result.
C15_AcceptIffActiveValid ==
  attempt.op = "verifierDecision"
    => (attempt.result.accepted <=> (credentialState = ACTIVE /\ lastVerification = VALID))

\* C15 witness: the verifier has accepted an ACTIVE slot with a VALID result
C15_Witness ==
  /\ attempt.op = "verifierDecision"
  /\ attempt.result.accepted
  /\ credentialState = ACTIVE
  /\ lastVerification = VALID

\* the cause of a rejection, the state tested first
Cause(state) ==
  IF state.credentialState = EMPTY THEN "Empty"
  ELSE IF state.credentialState = REVOKED THEN "Revoked"
  ELSE IF state.lastVerification = INVALID THEN "Invalid"
  ELSE IF state.lastVerification = NONE THEN "None"
  ELSE "Accepted"

\* every combination of state and verification result a reader may find
LedgerStates ==
  {[credentialState |-> cs, credentialHash |-> ZeroBytes, issuerPubKey |-> ZeroBytes,
    attestationCount |-> 0, lastVerification |-> lv] :
     cs \in CredentialState, lv \in VerificationResult}

\* C16: a rejection's reason identifies its cause: it equals the reason of any
\* other rejected ledger state exactly when the two have the same cause among
\* Empty, Revoked, Active with INVALID, Active with NONE; the state is tested
\* first, so EMPTY and REVOKED slots get their reason whatever lastVerification
\* holds.
C16_DistinctReasons ==
  (attempt.op = "verifierDecision" /\ ~attempt.result.accepted)
    => \A other \in LedgerStates :
         ~verifierDecision(other).accepted
           => ((verifierDecision(other).reason = attempt.result.reason)
                 <=> (Cause(other) = Cause(readLedger)))

\* C16 witness: the verifier has rejected a REVOKED slot whose lastVerification
\* is INVALID
C16_Witness ==
  /\ attempt.op = "verifierDecision"
  /\ ~attempt.result.accepted
  /\ credentialState = REVOKED
  /\ lastVerification = INVALID


\* C17: for a fixed secret key, two different sequence values derive different
\* digests: no sequence other than the one used reproduces, from the issuer's
\* key, the issuerPubKey a committed Issue has written.
C17_DeriveSequenceSensitive ==
  attempt = [op |-> "issueCredential", result |-> "ok"]
    => \A s \in 1..MaxProbeSequence :
         s # issued.sequence => Derive(issued.secretKey, s) # issuerPubKey

\* C17 witness: a credential has just been issued at a sequence after the first
C17_Witness ==
  /\ attempt = [op |-> "issueCredential", result |-> "ok"]
  /\ issuerPubKey = Derive(privateState.secretKey, sequence)
  /\ sequence > 1

\* 32-byte values tried in place of one component of the issued triple
CommitProbes ==
  Values \cup SecretKeys \cup {ZeroBytes}
    \cup {Derive(k, s) : k \in SecretKeys \cup {ZeroBytes}, s \in 1..MaxSequence}

\* C18: a triple that differs from the issued (patientId, payload, issuerPubKey)
\* in exactly one component commits to a digest different from the
\* credentialHash a committed Issue has written.
C18_CommitOneComponent ==
  attempt = [op |-> "issueCredential", result |-> "ok"]
    => \A v \in CommitProbes :
         /\ v # issued.patientId
              => Commit(v, issued.credential, issuerPubKey) # credentialHash
         /\ v # issued.credential
              => Commit(issued.patientId, v, issuerPubKey) # credentialHash
         /\ v # issuerPubKey
              => Commit(issued.patientId, issued.credential, v) # credentialHash

\* C18 witness: a credential has just been issued and its hash is the
\* commitment of the issued triple
C18_Witness ==
  /\ attempt = [op |-> "issueCredential", result |-> "ok"]
  /\ credentialHash = Commit(issued.patientId, issued.credential, issuerPubKey)
  /\ issued.patientId # issued.credential
  /\ issued.secretKey = SK

\* C19 (as claimed): Commit is order-sensitive: with the issued id and payload
\* different from each other, the commitment of the two in swapped positions
\* differs from the stored credentialHash.
C19_CommitOrderSensitive ==
  (credentialState # EMPTY /\ issued.patientId # issued.credential)
    => Commit(issued.credential, issued.patientId, issuerPubKey) # credentialHash

\* C20 (as claimed): on every issued slot, credentialHash equals none of the raw
\* private inputs it was made from (secret key, patient id, payload) and
\* issuerPubKey does not equal the secret key.
C20_NoRawInputOnLedger ==
  credentialState # EMPTY
    => /\ credentialHash \notin {issued.secretKey, issued.patientId, issued.credential}
       /\ issuerPubKey # issued.secretKey

(***************************************************************************)
(* The transition function agrees with the three circuits on every step.   *)
(***************************************************************************)
ApplyAgrees ==
  [][attempt'.op \in Circuits =>
       /\ slot' = apply(slot, attempt'.op, privateState).slot
       /\ attempt'.result = apply(slot, attempt'.op, privateState).result]_vars

(***************************************************************************)
(* Witness accessors.                                                      *)
(***************************************************************************)
WitnessNames == {"issuerSecretKey", "patientSecretId", "credentialPayload"}

callWitness(name, ps) ==
  CASE name = "issuerSecretKey" -> issuerSecretKey(ps)
    [] name = "patientSecretId" -> patientSecretId(ps)
    [] name = "credentialPayload" -> credentialPayload(ps)

ownField(name, ps) ==
  CASE name = "issuerSecretKey" -> ps.secretKey
    [] name = "patientSecretId" -> ps.patientId
    [] name = "credentialPayload" -> ps.credential

\* the calls of one operation, each handed the private state the previous
\* call returned: the private state left at the end and the values returned
RECURSIVE threadCalls(_, _)
threadCalls(ps, calls) ==
  IF calls = <<>>
  THEN [ps |-> ps, values |-> <<>>]
  ELSE LET r == callWitness(Head(calls), ps)
           rest == threadCalls(r[1], Tail(calls))
       IN [ps |-> rest.ps, values |-> <<r[2]>> \o rest.values]

CallSeqs == UNION {[1..n -> WitnessNames] : n \in 1..MaxCalls}

\* C23: each witness accessor returns the private state it was given
\* unchanged together with exactly its own field (secretKey, patientId,
\* credential), so any number of witness calls in any order within one
\* operation return the same values.
C23_WitnessesPure ==
  attempt.op = "setPrivateState" =>
    \A calls \in CallSeqs :
      LET run == threadCalls(privateState, calls)
      IN /\ run.ps = privateState
         /\ \A i \in 1..Len(calls) : run.values[i] = ownField(calls[i], privateState)

\* a private state with three different fields has been entered
C23_Witness ==
  /\ attempt.op = "setPrivateState"
  /\ privateState = createMidHealthPrivateState(SK, P1, Dose2)
  /\ threadCalls(privateState, <<"credentialPayload", "issuerSecretKey",
                                 "issuerSecretKey">>).values = <<Dose2, SK, SK>>

(***************************************************************************)
(* Frame of a committed Prove, revocation after a proof, counter ties,     *)
(* the epoch counter and revocation.                                       *)
(***************************************************************************)
\* C25: a committed Prove, whether recorded Valid or Invalid, changes only
\* lastVerification and attestationCount: state stays Active and
\* credentialHash, issuerPubKey and sequence are unchanged.
C25_ProveFrame ==
  [][attempt' = [op |-> "proveVaccinated", result |-> "ok"] =>
       /\ credentialState = ACTIVE
       /\ credentialState' = ACTIVE
       /\ UNCHANGED <<credentialHash, issuerPubKey, sequence>>
       /\ lastVerification' \in {VALID, INVALID}
       /\ attestationCount' = attestationCount + 1]_vars

\* a Prove has been committed with a mismatching payload over an earlier VALID
C25_Witness ==
  /\ attempt = [op |-> "proveVaccinated", result |-> "ok"]
  /\ lastVerification = INVALID
  /\ attestationCount = 3
  /\ credentialState = ACTIVE

\* C27: Revoke does not reset lastVerification, so a slot with state Revoked
\* and lastVerification Valid is reachable, and the verifier decision rejects
\* every such slot.
C27_RevokedValidRejected ==
  [][attempt' = [op |-> "revokeCredential", result |-> "ok"] =>
       /\ lastVerification' = lastVerification
       /\ credentialState' = REVOKED
       /\ ~verifierDecision(readLedger').accepted]_vars

\* Issue, matching Prove, Revoke: the slot is Revoked with lastVerification Valid
C27_Witness ==
  /\ attempt = [op |-> "revokeCredential", result |-> "ok"]
  /\ credentialState = REVOKED
  /\ lastVerification = VALID
  /\ attestationCount = 3
  /\ ~verifierDecision(readLedger).accepted

\* the ties between the state, the last verification and the counter
CountTies ==
  /\ credentialState = EMPTY => attestationCount = 0 /\ lastVerification = NONE
  /\ credentialState = ACTIVE => attestationCount >= 1
  /\ credentialState = REVOKED => attestationCount >= 2
  /\ lastVerification # NONE => attestationCount >= 2

\* C28: attestationCount counts the committed operations (it rises by one on
\* a committed circuit and on no other step, from 0 at deployment) and is
\* tied to the state: Empty implies count 0 and lastVerification None,
\* Active implies count >= 1, Revoked implies count >= 2, and a
\* lastVerification other than None implies count >= 2.
C28_CountTiedToState ==
  [][/\ attestationCount' =
          IF attempt'.op \in Circuits /\ attempt'.result = "ok"
          THEN attestationCount + 1 ELSE attestationCount
     /\ CountTies
     /\ CountTies']_vars

\* a slot revoked straight after Issue: count 2, no verification recorded
C28_Witness ==
  /\ credentialState = REVOKED
  /\ attestationCount = 2
  /\ lastVerification = NONE
  /\ attempt = [op |-> "revokeCredential", result |-> "ok"]

\* C29: none of Issue, Prove or Revoke changes sequence; while sequence is
\* the one of the Issue, a Revoke by the issuer on an Active slot commits;
\* once sequence has been moved on by the external rule, a Revoke with the
\* original issuer key on the Active slot fails with Unauthorized.
C29_SequenceAndRevoke ==
  [][/\ attempt'.op \in Circuits => sequence' = sequence
     /\ (/\ attempt'.op = "revokeCredential"
         /\ credentialState = ACTIVE
         /\ issued.done
         /\ privateState.secretKey = issued.secretKey)
        => IF sequence = issued.sequence
           THEN attempt'.result = "ok" /\ credentialState' = REVOKED
           ELSE attempt'.result = "Unauthorized" /\ slot' = slot]_vars

\* the issuer's Revoke has been refused after the sequence moved on
C29_Witness ==
  /\ attempt = [op |-> "revokeCredential", result |-> "Unauthorized"]
  /\ issued.done
  /\ privateState.secretKey = issued.secretKey
  /\ sequence # issued.sequence
  /\ credentialState = ACTIVE

(***************************************************************************)
(* The ledger states the verifier test reads.                              *)
(***************************************************************************)
Scenarios == {"valid", "invalid", "revoked", "empty"}

\* simulateLedgerRead(scenario): the state, counter and last verification of
\* the fixture (its two digests are arbitrary hex strings)
simulateLedgerRead(scenario) ==
  CASE scenario = "valid" ->
         [credentialState |-> ACTIVE, attestationCount |-> 2, lastVerification |-> VALID]
    [] scenario = "invalid" ->
         [credentialState |-> ACTIVE, attestationCount |-> 2, lastVerification |-> INVALID]
    [] scenario = "revoked" ->
         [credentialState |-> REVOKED, attestationCount |-> 3, lastVerification |-> NONE]
    [] OTHER ->
         [credentialState |-> EMPTY, attestationCount |-> 0, lastVerification |-> NONE]

\* the slots left by at most n operations applied one after the other to s
RECURSIVE slotsWithin(_, _)
slotsWithin(s, n) ==
  IF n = 0
  THEN {s}
  ELSE LET before == slotsWithin(s, n - 1)
       IN before \cup {apply(b, op, ps).slot :
                         b \in before, op \in Circuits, ps \in PrivateStates}

shows(s, fixture) ==
  /\ s[1] = fixture.credentialState
  /\ s[4] = fixture.attestationCount
  /\ s[5] = fixture.lastVerification

\* C26: each of the four public ledger states that the verifier test reads
\* is reachable from the deployed Empty slot by some sequence of Issue,
\* Prove and Revoke.
C26_FixturesReachable ==
  attempt.op = "deploy" =>
    \A scenario \in Scenarios :
      \E s \in slotsWithin(slot, MaxOps) : shows(s, simulateLedgerRead(scenario))

\* the other three fixtures are reached from the deployed slot
C26_OthersReachable ==
  attempt.op = "deploy" =>
    \A scenario \in Scenarios \ {"revoked"} :
      \E s \in slotsWithin(slot, MaxOps) : shows(s, simulateLedgerRead(scenario))

\* no slot the circuits produce shows the "revoked" fixture: a Revoked slot
\* without a recorded verification was revoked straight after Issue
C26_RevokedFixtureNeverShown ==
  ~shows(slot, simulateLedgerRead("revoked"))

(***************************************************************************)
(* Racing submissions, the hand-off to the Proof Backend, failures.        *)
(***************************************************************************)
\* the ledger has just applied the submission of caller c
included(c) == clients[c].stage = "inFlight" /\ clients'[c].stage = "done"

\* C21: the ledger applies racing submissions one after the other and each
\* is evaluated against the slot current when it is applied: a Prove or
\* Revoke built against an Active slot and applied to a slot that a Revoke
\* has moved to Revoked is rejected and changes nothing, and when two Proves
\* built against the same slot value are both applied, both are committed
\* and the count is that slot's count plus 2.
C21_RacingSubmissions ==
  [][\A c \in Callers :
       included(c) =>
         LET sub == clients[c]
             after == clients'[c]
         IN /\ slot' = apply(slot, sub.op, sub.ps).slot
            /\ (/\ sub.read[1] = ACTIVE
                /\ sub.op \in {"proveVaccinated", "revokeCredential"}
                /\ credentialState = REVOKED)
               => slot' = slot /\ after.result \in PredicateErrors
            /\ \A d \in Callers \ {c} :
                 (/\ sub.op = "proveVaccinated"
                  /\ clients[d].op = "proveVaccinated"
                  /\ clients[d].stage = "done"
                  /\ clients[d].applied # <<>>
                  /\ clients[d].read = sub.read)
                 => /\ after.result = "ok"
                    /\ clients[d].result = "ok"
                    /\ attestationCount' = sub.read[4] + 2]_vars

\* two Proves built against the same Active slot have both been committed
C21_Witness ==
  /\ \A c \in Callers :
       /\ clients[c].stage = "done"
       /\ clients[c].op = "proveVaccinated"
       /\ clients[c].result = "ok"
       /\ clients[c].applied # <<>>
  /\ clients["c1"].read = clients["c2"].read
  /\ clients["c1"].applied # clients["c2"].applied
  /\ attestationCount = clients["c1"].read[4] + 2

\* C22: an operation whose predicate fails never issues a request to the
\* Proof Backend and never submits to the ledger; a proof request is issued
\* only after the outcome (the new slot value) has been decided.
C22_NoProofForRejected ==
  \A c \in Callers :
    clients[c].stage # "idle" =>
      \E r \in {apply(clients[c].read, clients[c].op, clients[c].ps)} :
        /\ r.result # "ok" =>
             /\ clients[c].stage \in {"decided", "done"}
             /\ clients[c].applied = <<>>
             /\ clients[c].result = r.result
        /\ clients[c].stage \in {"proving", "certified", "inFlight", "failed"} =>
             /\ r.result = "ok"
             /\ clients[c].next = r.slot

\* a Revoke with a foreign key was refused locally on an Active slot while
\* the other caller's operation is with the Proof Backend
C22_Witness ==
  /\ clients["c1"].stage = "done"
  /\ clients["c1"].op = "revokeCredential"
  /\ clients["c1"].result = "Unauthorized"
  /\ clients["c1"].applied = <<>>
  /\ clients["c1"].read[1] = ACTIVE
  /\ credentialState = ACTIVE
  /\ clients["c2"].stage = "proving"

Failures == {"ProofGenerationFailed", "SubmissionFailed"}

endedUnconnected ==
  \/ status' = "Lace wallet not detected" /\ status # status'
  \/ call'.race \in {"timeout", "rejected"} /\ call.race = "none"

\* wallet.connected becomes true only when connect resolved before the
\* timeout; on the other paths the wallet stays disconnected; connecting is
\* false once connectWallet has finished; disconnectWallet resets role
C30_ConnectPaths ==
  [][/\ (wallet'.connected /\ ~wallet.connected)
        => call.race = "connect" /\ call.promise = "resolved"
     /\ endedUnconnected => ~wallet'.connected /\ wallet' = wallet
     /\ call'.pc = "idle" => ~connecting'
     /\ (wallet.connected /\ ~wallet'.connected) => role' = "null"]_vars

\* C30: wallet.connected becomes true only when the wallet's connect call
\* resolved before the 30-second timeout; on every other path of
\* connectWallet the wallet stays disconnected, and on every path connecting
\* is false once connectWallet has finished; a role is selected only while
\* the wallet is connected, and disconnectWallet resets role to null.
C30_WalletFlow ==
  [][/\ (wallet'.connected /\ ~wallet.connected)
        => call.race = "connect" /\ call.promise = "resolved"
     /\ endedUnconnected => ~wallet'.connected /\ wallet' = wallet
     /\ call'.pc = "idle" => ~connecting'
     /\ (wallet.connected /\ ~wallet'.connected) => role' = "null"
     /\ role' # role /\ role' # "null" => wallet.connected
     /\ role' # "null" => wallet'.connected]_vars

====
